---- MODULE Spec2Model ----
(***************************************************************************)
(* The migration_cleanup management command of djangocms-4-migration       *)
(* (djangocms_4_migration/management/commands/migration_cleanup.py) as a   *)
(* state machine over the database tables it reads and writes.             *)
(*                                                                         *)
(* A table is a function from primary keys to rows; deleting a row removes *)
(* its key from the domain.  The command is single-threaded: pc, i and j   *)
(* are the position of Command.handle in its two nested loops.             *)
(*                                                                         *)
(* one_to_one, one_to_many and many_to_many stand for the reverse          *)
(* relations that Page._meta.get_fields() lists (PageUrl apart), pagefield *)
(* for the PageField relations of page._meta._relation_tree.  A delete     *)
(* made through the ORM or inside a try that catches ProtectedError may    *)
(* raise it; the cascade of a delete to further models is not modelled.    *)
(***************************************************************************)
EXTENDS Naturals, Sequences, FiniteSets

\* Bounds of the explored databases.
MaxPages == 3
MaxNodes == 2
MaxPC == 2
\* Rows of Version, Placeholder, PageUrl and of the models related to Page,
\* all tables together.
MaxRows == 2

\* ContentType rows: the one of cms.PageContent (line 108) and any other.
PAGECONTENT == "pagecontent"
OTHER_MODEL == "other"
ContentTypes == {PAGECONTENT, OTHER_MODEL}

VARIABLES
    Page,               \* cms_page: id -> node_id
    PageContent,        \* cms.PageContent (_base_manager): id -> page id
    PageUrl,            \* cms_pageurl: id -> page_id
    Placeholder,        \* cms.Placeholder: id -> [object_id, content_type]
    Version,            \* djangocms_versioning.Version: id -> [object_id, content_type]
    one_to_one,         \* rows of a model with a OneToOneField to Page: id -> page id
    one_to_many,        \* rows of a model with a ForeignKey to Page: id -> page id
    many_to_many,       \* rows of a model with a ManyToManyField to Page: id -> set of page ids
    pagefield,          \* rows of a model with a PageField to Page: id -> page id
    pc,                 \* position of Command.handle
    page_list,          \* the evaluated queryset of line 109, a sequence of Page objects
    i,                  \* index of `page` in page_list
    page_content_list,  \* the evaluated queryset of line 121 for the current page
    j,                  \* index of `page_content` in page_content_list
    stats,              \* the stats dict of line 111
    errors,             \* the logger.error calls made: <<model, id>>
    log_stats,          \* the stats logged by line 143
    exception,          \* the exception that left handle, or "none"
    initial             \* history: the tables as they were before the run

tables == <<Page, PageContent, PageUrl, Placeholder, Version,
            one_to_one, one_to_many, many_to_many, pagefield>>
vars == <<Page, PageContent, PageUrl, Placeholder, Version,
          one_to_one, one_to_many, many_to_many, pagefield,
          pc, page_list, i, page_content_list, j, stats, errors, log_stats,
          exception, initial>>

----------------------------------------------------------------------------
\* Helpers for tables.

\* The table t without the rows whose keys are in ids (DELETE).
delete(t, ids) == [k \in (DOMAIN t) \ ids |-> t[k]]

\* The keys of the rows of t that satisfy the filter value v (filter(field=v)).
filter(t, v) == {k \in DOMAIN t : t[k] = v}

\* The keys of a set in ascending order: the order a queryset is iterated in.
RECURSIVE ordered(_)
ordered(S) ==
    IF S = {} THEN <<>>
    ELSE LET m == CHOOSE x \in S : \A y \in S : x <= y
         IN <<m>> \o ordered(S \ {m})

\* Every table of at most n rows with keys 1..k and rows in S.
Tables(n, S) == UNION {[1..k -> S] : k \in 0..n}

Rows(t) == Cardinality(DOMAIN t)

----------------------------------------------------------------------------
\* The state before the command runs.

\* What a generic foreign key (object_id, content_type) can hold.
GenericKeys == [object_id : 1..MaxPC, content_type : ContentTypes]

\* A OneToOneField is unique: no two rows point to the same page.
unique(t) == \A a, b \in DOMAIN t : t[a] = t[b] => a = b

Init ==
    /\ Page \in Tables(MaxPages, 1..MaxNodes)
    /\ PageContent \in Tables(MaxPC, DOMAIN Page)
    /\ Version \in Tables(MaxRows, GenericKeys)
    /\ Placeholder \in Tables(MaxRows - Rows(Version), GenericKeys)
    /\ PageUrl \in Tables(MaxRows - Rows(Version) - Rows(Placeholder), DOMAIN Page)
    /\ one_to_one \in
         Tables(MaxRows - Rows(Version) - Rows(Placeholder) - Rows(PageUrl), DOMAIN Page)
    /\ unique(one_to_one)
    /\ one_to_many \in
         Tables(MaxRows - Rows(Version) - Rows(Placeholder) - Rows(PageUrl)
                  - Rows(one_to_one), DOMAIN Page)
    /\ many_to_many \in
         Tables(MaxRows - Rows(Version) - Rows(Placeholder) - Rows(PageUrl)
                  - Rows(one_to_one) - Rows(one_to_many), SUBSET DOMAIN Page)
    /\ pagefield \in
         Tables(MaxRows - Rows(Version) - Rows(Placeholder) - Rows(PageUrl)
                  - Rows(one_to_one) - Rows(one_to_many) - Rows(many_to_many),
                DOMAIN Page)
    /\ pc = "loop"
    /\ page_list = [k \in 1..Rows(Page) |->
                      [id |-> ordered(DOMAIN Page)[k],
                       node_id |-> Page[ordered(DOMAIN Page)[k]]]]
    /\ i = 1
    /\ page_content_list = <<>>
    /\ j = 1
    /\ stats = [page_count |-> Rows(Page), page_deleted |-> 0,
                pagecontents_count |-> 0, pagecontents_deleted |-> 0]
    /\ errors = {}
    /\ log_stats = <<>>
    /\ exception = "none"
    /\ initial = [Page |-> Page, PageContent |-> PageContent, PageUrl |-> PageUrl,
                  Placeholder |-> Placeholder, Version |-> Version,
                  one_to_one |-> one_to_one, one_to_many |-> one_to_many,
                  many_to_many |-> many_to_many, pagefield |-> pagefield]

----------------------------------------------------------------------------
\* The queries.

\* Page.objects.filter(node_id=page.node_id).exclude(id=page.id): the rows
\* that .get() chooses from.
replacement_pages(page) ==
    {p \in DOMAIN Page : Page[p] = page.node_id /\ p # page.id}

\* Faulty variant of get_raises: .first() in place of .get().
get_raises_first(rows) == IF rows = {} THEN "DoesNotExist" ELSE "none"

\* .get(): the exception it raises, "none" when exactly one row matches.
get_raises(rows) ==
    IF rows = {} THEN "DoesNotExist"
    ELSE IF Cardinality(rows) > 1 THEN "MultipleObjectsReturned"
    ELSE "none"

_get_replacement_page(page) == CHOOSE p \in replacement_pages(page) : TRUE

\* Faulty variants of _get_page_contents: one filters on the primary key
\* instead of the page, one reads through the versioned default manager,
\* which hides the contents that have no Version.
_get_page_contents_pk(page) == {c \in DOMAIN PageContent : c = page.id}

_get_page_contents_objects(page) ==
    {c \in filter(PageContent, page.id) :
        \E v \in DOMAIN Version :
            Version[v] = [object_id |-> c, content_type |-> PAGECONTENT]}

_get_page_contents(page) == filter(PageContent, page.id)

\* Faulty variant of version_count: the content_type filter is missing.
version_count_any_type(page_content) ==
    Cardinality({v \in DOMAIN Version : Version[v].object_id = page_content})

\* Version.objects.filter(object_id=page_content.pk, content_type=...).count()
version_count(page_content) ==
    Cardinality(filter(Version,
        [object_id |-> page_content, content_type |-> PAGECONTENT]))

\* Placeholder.objects.filter(object_id=page_content.pk, content_type=...)
page_content_placeholders(page_content) ==
    filter(Placeholder, [object_id |-> page_content, content_type |-> PAGECONTENT])

----------------------------------------------------------------------------
\* The updates of _fix_page_references and _fix_pagefield_references.

\* Faulty variant of update: page and replacement_page are swapped.
update_swapped(t, page, replacement_page) ==
    [k \in DOMAIN t |-> IF t[k] = replacement_page THEN page ELSE t[k]]

\* filter(field=page).update(field=replacement_page)
update(t, page, replacement_page) ==
    [k \in DOMAIN t |-> IF t[k] = page THEN replacement_page ELSE t[k]]

\* Faulty variant of fix_many_to_many: set([replacement_page]) in place of
\* remove and add.
fix_many_to_many_set(t, page, replacement_page) ==
    [k \in DOMAIN t |-> IF page \in t[k] THEN {replacement_page} ELSE t[k]]

\* for every object whose set holds page: remove(page), add(replacement_page)
fix_many_to_many(t, page, replacement_page) ==
    [k \in DOMAIN t |->
        IF page \in t[k] THEN (t[k] \ {page}) \cup {replacement_page} ELSE t[k]]

\* Faulty variant of delete_one_to_one: the filter is missing.
delete_one_to_one_all(t, page) == delete(t, DOMAIN t)

\* filter(field=page).delete()
delete_one_to_one(t, page) == delete(t, filter(t, page))

\* placeholder.delete() for each placeholder of page_content; those in
\* protected raise ProtectedError and stay.
_delete_page_content_placeholders(page_content, protected) ==
    delete(Placeholder, page_content_placeholders(page_content) \ protected)

\* page_content.delete(); it stays when ProtectedError is raised.
_delete_page_content(page_content, raised) ==
    IF raised THEN PageContent ELSE delete(PageContent, {page_content})

----------------------------------------------------------------------------
\* The steps of Command.handle.

\* Whether a delete of these rows can raise ProtectedError: the outcomes
\* the database's protected foreign keys allow.  Deleting nothing raises
\* nothing.
ProtectedError(rows) == IF rows = {} THEN {FALSE} ELSE BOOLEAN

\* `continue`, or the end of the body of the loop over page_list.
next_page ==
    /\ pc' = "loop"
    /\ i' = i + 1

\* for page in page_list: the page has no PageContent, or it has some.
handle_page ==
    /\ pc = "loop"
    /\ i <= Len(page_list)
    /\ LET page == page_list[i]
           contents == _get_page_contents(page)
       IN IF contents = {}
          THEN /\ pc' = "_fix_page_references"
               /\ UNCHANGED stats
          ELSE /\ pc' = "page_content"
               /\ stats' = [stats EXCEPT
                              !.pagecontents_count = @ + Cardinality(contents)]
    /\ page_content_list' = ordered(_get_page_contents(page_list[i]))
    /\ j' = 1
    /\ UNCHANGED <<tables, page_list, i, errors, log_stats, exception, initial>>

\* The relations of _fix_page_references in the order of
\* Page._meta.get_fields(), which the command does not fix.
RelationOrders == {<<"one_to_one", "many_to_many", "one_to_many">>,
                   <<"one_to_one", "one_to_many", "many_to_many">>,
                   <<"many_to_many", "one_to_one", "one_to_many">>,
                   <<"one_to_many", "one_to_one", "many_to_many">>,
                   <<"many_to_many", "one_to_many", "one_to_one">>,
                   <<"one_to_many", "many_to_many", "one_to_one">>}

\* Whether relation rel is handled when the one-to-one delete raises or not.
reached(order, rel, raised) ==
    \/ ~raised
    \/ \E a, b \in 1..Len(order) :
          a < b /\ order[a] = rel /\ order[b] = "one_to_one"

_fix_page_references ==
    /\ pc = "_fix_page_references"
    /\ LET page == page_list[i]
           rows == replacement_pages(page)
           replacement_page == _get_replacement_page(page)
       IN IF get_raises(rows) # "none"
          THEN /\ pc' = "aborted"
               /\ exception' = get_raises(rows)
               /\ UNCHANGED <<one_to_one, one_to_many, many_to_many>>
          ELSE \E raised \in ProtectedError(filter(one_to_one, page.id)),
                  order \in RelationOrders :
               /\ pc' = IF raised THEN "aborted" ELSE "_fix_pagefield_references"
               /\ exception' = IF raised THEN "ProtectedError" ELSE exception
               /\ one_to_one' =
                    IF raised THEN one_to_one
                    ELSE delete_one_to_one(one_to_one, page.id)
               /\ many_to_many' =
                    IF reached(order, "many_to_many", raised)
                    THEN fix_many_to_many(many_to_many, page.id, replacement_page)
                    ELSE many_to_many
               /\ one_to_many' =
                    IF reached(order, "one_to_many", raised)
                    THEN update(one_to_many, page.id, replacement_page)
                    ELSE one_to_many
    /\ UNCHANGED <<Page, PageContent, PageUrl, Placeholder, Version, pagefield,
                   page_list, i, page_content_list, j, stats, errors, log_stats,
                   initial>>

_fix_pagefield_references ==
    /\ pc = "_fix_pagefield_references"
    /\ LET page == page_list[i]
           rows == replacement_pages(page)
           replacement_page == _get_replacement_page(page)
       IN IF get_raises(rows) # "none"
          THEN /\ pc' = "aborted"
               /\ exception' = get_raises(rows)
               /\ UNCHANGED pagefield
          ELSE /\ pc' = "_delete_page"
               /\ pagefield' = update(pagefield, page.id, replacement_page)
               /\ UNCHANGED exception
    /\ UNCHANGED <<Page, PageContent, PageUrl, Placeholder, Version,
                   one_to_one, one_to_many, many_to_many,
                   page_list, i, page_content_list, j, stats, errors, log_stats,
                   initial>>

\* Faulty variant of _delete_page: the cms_pageurl rows are not deleted.
_delete_page_keeps_urls ==
    /\ pc = "_delete_page"
    /\ pc' = "_delete_page_row"
    /\ UNCHANGED <<tables, page_list, i, page_content_list, j, stats, errors,
                   log_stats, exception, initial>>

\* _delete_page, line 69: DELETE FROM cms_pageurl WHERE page_id = page.id
_delete_page ==
    /\ pc = "_delete_page"
    /\ LET page == page_list[i]
       IN \E raised \in ProtectedError(filter(PageUrl, page.id)) :
            IF raised
            THEN /\ errors' = errors \cup {<<"Page", page.id>>}
                 /\ next_page
                 /\ stats' = [stats EXCEPT !.page_deleted = @ + 1]
                 /\ UNCHANGED PageUrl
            ELSE /\ PageUrl' = delete(PageUrl, filter(PageUrl, page.id))
                 /\ pc' = "_delete_page_row"
                 /\ UNCHANGED <<errors, i, stats>>
    /\ UNCHANGED <<Page, PageContent, Placeholder, Version,
                   one_to_one, one_to_many, many_to_many, pagefield,
                   page_list, page_content_list, j, log_stats, exception, initial>>

\* Faulty variant of _delete_page_row: ProtectedError is not caught.
_delete_page_row_unhandled ==
    /\ pc = "_delete_page_row"
    /\ \E raised \in ProtectedError({page_list[i].id} \cap DOMAIN Page) :
         IF raised
         THEN /\ pc' = "aborted"
              /\ exception' = "ProtectedError"
              /\ UNCHANGED <<Page, i, stats>>
         ELSE /\ Page' = delete(Page, {page_list[i].id})
              /\ next_page
              /\ stats' = [stats EXCEPT !.page_deleted = @ + 1]
              /\ UNCHANGED exception
    /\ UNCHANGED <<PageContent, PageUrl, Placeholder, Version,
                   one_to_one, one_to_many, many_to_many, pagefield,
                   page_list, page_content_list, j, errors, log_stats, initial>>

\* _delete_page, line 70: DELETE FROM cms_page WHERE id = page.id, then
\* lines 127-128 of handle.
_delete_page_row ==
    /\ pc = "_delete_page_row"
    /\ LET page == page_list[i]
       IN \E raised \in ProtectedError({page.id} \cap DOMAIN Page) :
            /\ errors' = IF raised THEN errors \cup {<<"Page", page.id>>} ELSE errors
            /\ Page' = IF raised THEN Page ELSE delete(Page, {page.id})
            /\ next_page
            /\ stats' = [stats EXCEPT !.page_deleted = @ + 1]
    /\ UNCHANGED <<PageContent, PageUrl, Placeholder, Version,
                   one_to_one, one_to_many, many_to_many, pagefield,
                   page_list, page_content_list, j, log_stats, exception, initial>>

\* for page_content in page_content_list: lines 133-141, one iteration.
handle_page_content ==
    /\ pc = "page_content"
    /\ LET page_content == page_content_list[j]
           no_versions == version_count(page_content) = 0
       IN \E protected \in
                (IF no_versions
                 THEN SUBSET page_content_placeholders(page_content) ELSE {{}}),
             raised \in
                (IF no_versions
                 THEN ProtectedError({page_content} \cap DOMAIN PageContent)
                 ELSE {FALSE}) :
            /\ Placeholder' =
                 IF no_versions
                 THEN _delete_page_content_placeholders(page_content, protected)
                 ELSE Placeholder
            /\ PageContent' =
                 IF no_versions
                 THEN _delete_page_content(page_content, raised)
                 ELSE PageContent
            /\ errors' = errors
                 \cup {<<"Placeholder", ph>> : ph \in protected}
                 \cup (IF raised THEN {<<"PageContent", page_content>>} ELSE {})
            /\ stats' = [stats EXCEPT
                           !.pagecontents_deleted = @ + (IF no_versions THEN 1 ELSE 0)]
    /\ IF j = Len(page_content_list)
       THEN next_page /\ UNCHANGED j
       ELSE j' = j + 1 /\ UNCHANGED <<pc, i>>
    /\ UNCHANGED <<Page, PageUrl, Version, one_to_one, one_to_many, many_to_many,
                   pagefield, page_list, page_content_list, log_stats, exception,
                   initial>>

\* logger.info("Stats: %s", str(stats)), after the loop.
handle_stats ==
    /\ pc = "loop"
    /\ i > Len(page_list)
    /\ pc' = "done"
    /\ log_stats' = Append(log_stats, stats)
    /\ UNCHANGED <<tables, page_list, i, page_content_list, j, stats, errors,
                   exception, initial>>

Next ==
    \/ handle_page
    \/ _fix_page_references
    \/ _fix_pagefield_references
    \/ _delete_page
    \/ _delete_page_row
    \/ handle_page_content
    \/ handle_stats

Spec == Init /\ [][Next]_vars

----------------------------------------------------------------------------
\* Vocabulary of the properties.

\* The Page rows the run has deleted so far.
deleted_pages == (DOMAIN initial.Page) \ (DOMAIN Page)

\* The Page rows of node n that exist now.
surviving(n) == {p \in DOMAIN Page : Page[p] = n}

\* Whether page p had a PageContent before the run.
had_content(p) == \E c \in DOMAIN initial.PageContent : initial.PageContent[c] = p

\* The pages of page_list whose iteration of the loop has ended.
processed == {page_list[k].id : k \in 1..(i - 1)}

\* The pages of page_list after the current one.
later == {page_list[k].id : k \in (i + 1)..Len(page_list)}

\* The other Page rows that share the node of the current page.
siblings == {q \in DOMAIN Page :
                Page[q] = page_list[i].node_id /\ q # page_list[i].id}

\* Some row of t refers to page p (t one of one_to_many, pagefield, PageUrl).
refers(t, p) == \E r \in DOMAIN t : t[r] = p

\* C1 as stated: after a completed run every node that had a Page keeps
\* exactly one Page row.
C1_ExactlyOnePerNode ==
    pc = "done" =>
        \A p \in DOMAIN initial.Page :
            Cardinality(surviving(initial.Page[p])) = 1

\* C1 (amended): after a completed run every node that had a Page keeps at
\* least one Page row, and the rows it keeps are exactly its pages that had
\* a PageContent before the run and those whose deletion raised
\* ProtectedError; so exactly one survives when exactly one such page exists.
C1_SurvivorsPerNode ==
    pc = "done" =>
        \A p \in DOMAIN initial.Page :
            LET n == initial.Page[p]
                kept == {q \in DOMAIN initial.Page :
                            /\ initial.Page[q] = n
                            /\ had_content(q) \/ <<"Page", q>> \in errors}
            IN /\ surviving(n) # {}
               /\ surviving(n) = kept
               /\ Cardinality(kept) = 1 => Cardinality(surviving(n)) = 1

\* C1 witness: a completed run that deleted a page, left its node with
\* exactly one Page row and kept the only page of another node.
C1_Witness ==
    /\ pc = "done"
    /\ \E p \in deleted_pages :
          /\ Cardinality(surviving(initial.Page[p])) = 1
          /\ \E q \in DOMAIN Page : Page[q] # initial.Page[p]

\* C2: the redirection moves every one-to-many, many-to-many and PageField
\* reference from the page about to be deleted to its sibling of the same
\* node; every reference that pointed at a deleted Page before the run
\* points at the one surviving Page of the same node, and no such reference
\* ever points at a deleted Page row.
C2_ReferencesRedirected ==
    /\ [][LET p == page_list[i].id
          IN /\ (pc = "_fix_page_references"
                   /\ pc' = "_fix_pagefield_references") =>
                  /\ Cardinality(siblings) = 1
                  /\ \A r \in DOMAIN one_to_many :
                        one_to_many[r] = p => one_to_many'[r] \in siblings
                  /\ \A r \in DOMAIN many_to_many :
                        p \in many_to_many[r] =>
                            many_to_many'[r] \cap siblings # {}
                                /\ p \notin many_to_many'[r]
             /\ (pc = "_fix_pagefield_references" /\ pc' = "_delete_page") =>
                  \A r \in DOMAIN pagefield :
                        pagefield[r] = p => pagefield'[r] \in siblings]_vars
    /\ [](/\ \A p \in deleted_pages :
               LET sibling == surviving(initial.Page[p])
               IN /\ Cardinality(sibling) = 1
                  /\ \A r \in DOMAIN initial.one_to_many :
                        initial.one_to_many[r] = p => one_to_many[r] \in sibling
                  /\ \A r \in DOMAIN initial.pagefield :
                        initial.pagefield[r] = p => pagefield[r] \in sibling
                  /\ \A r \in DOMAIN initial.many_to_many :
                        p \in initial.many_to_many[r] =>
                            many_to_many[r] \cap sibling # {}
          /\ \A r \in DOMAIN one_to_many : one_to_many[r] \in DOMAIN Page
          /\ \A r \in DOMAIN pagefield : pagefield[r] \in DOMAIN Page
          /\ \A r \in DOMAIN many_to_many : many_to_many[r] \subseteq DOMAIN Page)

\* C2 witness: a completed run deleted a page that a foreign key and a
\* many-to-many set or a PageField referred to.
C2_Witness ==
    /\ pc = "done"
    /\ \E p \in deleted_pages :
          /\ refers(initial.one_to_many, p)
          /\ \/ refers(initial.pagefield, p)
             \/ \E r \in DOMAIN initial.many_to_many : p \in initial.many_to_many[r]

\* C3: an exception of the sibling lookup or of the one-to-one delete leaves
\* handle: the run stops there for good, the page it was at is not deleted,
\* no later page of the list is touched and no statistics are logged; and
\* the lookup fails whenever the page without PageContent has no sibling or
\* more than one.
C3_Aborts ==
    [][/\ pc # "aborted"
       /\ (pc = "_fix_page_references" /\ Cardinality(siblings) # 1) =>
              /\ pc' = "aborted"
              /\ exception' = (IF siblings = {} THEN "DoesNotExist"
                               ELSE "MultipleObjectsReturned")
              /\ UNCHANGED tables
       /\ pc' = "aborted" =>
              /\ exception' # "none"
              /\ page_list[i'].id \in DOMAIN Page'
              /\ _get_page_contents(page_list[i']) = {}
              /\ log_stats' = <<>>
              /\ UNCHANGED <<stats, errors>>
              /\ \A p \in later :
                    /\ p \in DOMAIN Page'
                    /\ \A c \in DOMAIN initial.PageContent :
                          initial.PageContent[c] = p => c \in DOMAIN PageContent']_vars

\* C3 witness: the lookup found two siblings, the run stopped with a later
\* page still in the list.
C3_Witness ==
    /\ pc = "aborted"
    /\ exception = "MultipleObjectsReturned"
    /\ later # {}

\* C4 as stated, in the form a finite run refutes: once a ProtectedError has
\* been logged the run goes on to its final statistics log, so it never
\* stops by an exception.
C4_ReachesStats == errors # {} => pc # "aborted"

\* C4 (amended): a ProtectedError of a Page, Placeholder or PageContent
\* delete is logged and the loop continues with the next placeholder, page
\* content or page; the run then reaches its final statistics log unless the
\* sibling lookup or the one-to-one delete of a page without PageContent
\* raises.
C4_LoopContinues ==
    /\ [](pc \notin {"done", "aborted"} => ENABLED Next)
    /\ [][/\ errors' # errors =>
               /\ errors \subseteq errors'
               /\ exception' = "none"
               /\ \/ pc' = "loop" /\ i' = i + 1
                  \/ pc' = "page_content" /\ i' = i /\ j' = j + 1
                        /\ j' <= Len(page_content_list)
          /\ pc' = "aborted" =>
               /\ pc \in {"_fix_page_references", "_fix_pagefield_references"}
               /\ _get_page_contents(page_list[i]) = {}
               /\ \/ Cardinality(siblings) # 1
                  \/ refers(one_to_one, page_list[i].id)]_vars

\* C4 witness: a completed run that logged a ProtectedError for a Page, for
\* a Placeholder or PageContent, and still logged its statistics.
C4_Witness ==
    /\ pc = "done"
    /\ Len(log_stats) = 1
    /\ \E p \in DOMAIN Page : <<"Page", p>> \in errors
    /\ \E e \in errors : e[1] \in {"Placeholder", "PageContent"}

\* C5: the statistics logged are the counts of the run.
C5_Stats ==
    pc = "done" =>
        /\ Len(log_stats) = 1
        /\ log_stats[1].page_count = Rows(initial.Page)
        /\ log_stats[1].page_deleted = Cardinality(deleted_pages)
        /\ log_stats[1].pagecontents_count = Rows(initial.PageContent)
        /\ log_stats[1].pagecontents_deleted =
              Cardinality((DOMAIN initial.PageContent) \ (DOMAIN PageContent))

\* The PageContent rows whose iteration of the inner loop has ended.
visited(c) ==
    \/ initial.PageContent[c] \in processed
    \/ /\ pc = "page_content"
       /\ page_list[i].id = initial.PageContent[c]
       /\ \E k \in 1..(j - 1) : page_content_list[k] = c

\* Some Version row references PageContent c.
versioned(c) ==
    \E v \in DOMAIN Version :
        Version[v].object_id = c /\ Version[v].content_type = PAGECONTENT

\* The Placeholder rows attached to PageContent c before the run.
attached(c) ==
    {ph \in DOMAIN initial.Placeholder :
        /\ initial.Placeholder[ph].object_id = c
        /\ initial.Placeholder[ph].content_type = PAGECONTENT}

\* C6: a visited PageContent is deleted, and each of its placeholders, if
\* and only if no Version references it and its delete raised no
\* ProtectedError; any other PageContent or Placeholder row is unchanged.
C6_DeletedIffNoVersion ==
    /\ \A c \in DOMAIN initial.PageContent :
          /\ c \notin DOMAIN PageContent <=>
                (visited(c) /\ ~versioned(c) /\ <<"PageContent", c>> \notin errors)
          /\ \A ph \in attached(c) :
                ph \notin DOMAIN Placeholder <=>
                    (visited(c) /\ ~versioned(c) /\ <<"Placeholder", ph>> \notin errors)
    /\ \A c \in DOMAIN PageContent : PageContent[c] = initial.PageContent[c]
    /\ \A ph \in DOMAIN initial.Placeholder :
          (\A c \in DOMAIN initial.PageContent : ph \notin attached(c))
              => ph \in DOMAIN Placeholder
    /\ \A ph \in DOMAIN Placeholder : Placeholder[ph] = initial.Placeholder[ph]
    /\ Version = initial.Version

\* C6 witness: a completed run deleted a PageContent without Version and its
\* placeholder, and kept a PageContent that has a Version.
C6_Witness ==
    /\ pc = "done"
    /\ \E c \in (DOMAIN initial.PageContent) \ (DOMAIN PageContent) :
          \E ph \in attached(c) : ph \notin DOMAIN Placeholder
    /\ \E c \in DOMAIN PageContent : versioned(c)

\* No row of the relations that _fix_page_references redirects refers to p.
redirected(p) ==
    /\ ~refers(one_to_many, p)
    /\ ~refers(one_to_one, p)
    /\ \A r \in DOMAIN many_to_many : p \notin many_to_many[r]

\* C7: for a page without PageContent the reverse relations are redirected
\* first, then the PageField references, then its cms_pageurl rows are
\* deleted, then its cms_page row; once its iteration has ended without an
\* exception neither the Page row nor a PageUrl row of it exists.
C7_OrderOfSteps ==
    [][LET p == page_list[i].id
       IN /\ <<one_to_one, one_to_many, many_to_many>>' #
                 <<one_to_one, one_to_many, many_to_many>>
                 => pc = "_fix_page_references"
          /\ pagefield' # pagefield =>
                 /\ pc = "_fix_pagefield_references"
                 /\ redirected(p)
          /\ PageUrl' # PageUrl =>
                 /\ pc = "_delete_page"
                 /\ redirected(p) /\ ~refers(pagefield, p)
                 /\ \A r \in DOMAIN PageUrl : r \in DOMAIN PageUrl' <=> PageUrl[r] # p
          /\ Page' # Page =>
                 /\ pc = "_delete_page_row"
                 /\ redirected(p) /\ ~refers(pagefield, p) /\ ~refers(PageUrl, p)
                 /\ DOMAIN Page' = (DOMAIN Page) \ {p}
          /\ \A q \in processed' :
                 (~had_content(q) /\ <<"Page", q>> \notin errors') =>
                     q \notin DOMAIN Page' /\ ~refers(PageUrl', q)]_vars

\* C7 witness: a completed run deleted a page that had a PageUrl row and a
\* PageField reference.
C7_Witness ==
    /\ pc = "done"
    /\ \E p \in deleted_pages :
          refers(initial.PageUrl, p) /\ refers(initial.pagefield, p)

\* C8: _fix_page_references deletes the one-to-one objects of the orphaned
\* page and leaves every other one, the replacement page's too; no
\* one-to-one object and no PageUrl row is ever repointed, and the
\* redirection leaves the PageUrl rows alone.
C8_OneToOneDeleted ==
    [][/\ \A r \in (DOMAIN one_to_one) \cap (DOMAIN one_to_one') :
             one_to_one'[r] = one_to_one[r]
       /\ \A r \in (DOMAIN PageUrl) \cap (DOMAIN PageUrl') : PageUrl'[r] = PageUrl[r]
       /\ DOMAIN one_to_one' \subseteq DOMAIN one_to_one
       /\ DOMAIN PageUrl' \subseteq DOMAIN PageUrl
       /\ pc # "_fix_page_references" => one_to_one' = one_to_one
       /\ pc = "_fix_page_references" => PageUrl' = PageUrl
       /\ (pc = "_fix_page_references" /\ pc' = "_fix_pagefield_references") =>
             \A r \in DOMAIN one_to_one :
                 r \in DOMAIN one_to_one' <=> one_to_one[r] # page_list[i].id]_vars

\* C8 witness: the redirection has deleted the one-to-one object of the
\* orphaned page and the replacement page still has its own.
C8_Witness ==
    /\ pc = "_fix_pagefield_references"
    /\ \E r \in (DOMAIN initial.one_to_one) \ (DOMAIN one_to_one) :
          initial.one_to_one[r] = page_list[i].id
    /\ \E r \in DOMAIN one_to_one : one_to_one[r] \in siblings

\* C9: after _fix_page_references every many-to-many set that held the
\* orphaned page holds the replacement page and not the orphaned one, its
\* other members are unchanged, and the other sets are unchanged.
C9_ManyToMany ==
    [][(pc = "_fix_page_references" /\ pc' = "_fix_pagefield_references") =>
          /\ DOMAIN many_to_many' = DOMAIN many_to_many
          /\ \A r \in DOMAIN many_to_many :
                LET p == page_list[i].id
                IN IF p \in many_to_many[r]
                   THEN /\ p \notin many_to_many'[r]
                        /\ siblings \subseteq many_to_many'[r]
                        /\ \A q \in (DOMAIN Page) \ ({p} \cup siblings) :
                              q \in many_to_many'[r] <=> q \in many_to_many[r]
                        /\ many_to_many'[r] \subseteq DOMAIN Page
                   ELSE many_to_many'[r] = many_to_many[r]]_vars

\* C9 witness: the redirection has changed a set that held the orphaned
\* page and another page that is not its replacement.
C9_Witness ==
    /\ pc = "_fix_pagefield_references"
    /\ \E r \in DOMAIN many_to_many :
          /\ page_list[i].id \in initial.many_to_many[r]
          /\ page_list[i].id \notin many_to_many[r]
          /\ many_to_many[r] \ siblings # {}

\* C10: a Page that had a PageContent when it was visited is never deleted.
C10_PageWithContentSurvives ==
    \A p \in DOMAIN initial.Page :
        had_content(p) => p \in DOMAIN Page /\ Page[p] = initial.Page[p]

\* C10 witness: a completed run ends with a surviving Page that had
\* PageContent and has none left.
C10_Witness ==
    /\ pc = "done"
    /\ \E p \in DOMAIN Page : had_content(p) /\ filter(PageContent, p) = {}

====
